---- MODULE Spec2Model ----
(***************************************************************************)
(* Elevator ride simulation: the motion-profile / state-sampling engine    *)
(* (src/physics.js) and the animation driver (src/app.js).                 *)
(*                                                                         *)
(* JavaScript numbers are modelled as exact rationals <<n, d>> in lowest   *)
(* terms with d > 0.  Wall-clock times are integers (milliseconds).        *)
(***************************************************************************)
EXTENDS Integers, Sequences, FiniteSets, TLC

\* ------------------------------------------------------------------------
\* Exact rational arithmetic standing for the JS number operations
\* ------------------------------------------------------------------------

Abs(x) == IF x < 0 THEN -x ELSE x

\* The primitives are functions, so that an argument is evaluated once,
\* before the primitive is applied.
gcdF[a \in Nat, b \in Nat] == IF b = 0 THEN a ELSE gcdF[b, a % b]
GCD(a, b) == gcdF[a, b]

\* n/d in lowest terms, denominator positive
ratF[n \in Int, d \in Int] ==
  LET g == gcdF[Abs(n), Abs(d)]
  IN  IF d < 0 THEN <<(-n) \div g, (-d) \div g>> ELSE <<n \div g, d \div g>>
Rat(n, d) == ratF[n, d]

Num(n) == <<n, 1>>
Zero == Num(0)

RatValues == Int \X Int

addF[p \in RatValues, q \in RatValues] == ratF[p[1] * q[2] + q[1] * p[2], p[2] * q[2]]
mulF[p \in RatValues, q \in RatValues] == ratF[p[1] * q[1], p[2] * q[2]]
divF[p \in RatValues, q \in RatValues] == ratF[p[1] * q[2], p[2] * q[1]]
ltF[p \in RatValues, q \in RatValues] == p[1] * q[2] < q[1] * p[2]
leF[p \in RatValues, q \in RatValues] == p[1] * q[2] <= q[1] * p[2]
negF[p \in RatValues] == <<-p[1], p[2]>>
maxF[p \in RatValues, q \in RatValues] == IF ltF[p, q] THEN q ELSE p
minF[p \in RatValues, q \in RatValues] == IF ltF[q, p] THEN q ELSE p

Add(p, q) == addF[p, q]
Neg(p) == negF[p]
Sub(p, q) == addF[p, negF[q]]
Mul(p, q) == mulF[p, q]
Div(p, q) == divF[p, q]
Lt(p, q) == ltF[p, q]
Le(p, q) == leF[p, q]
Gt(p, q) == ltF[q, p]
Ge(p, q) == leF[q, p]

MathMax(p, q) == maxF[p, q]
MathMin(p, q) == minF[p, q]
MathAbs(p) == <<Abs(p[1]), p[2]>>
\* Math.sign: -1, 0 or 1 (as an integer)
MathSign(p) == IF p[1] > 0 THEN 1 ELSE IF p[1] < 0 THEN -1 ELSE 0

\* integer square root (floor)
ISqrt(n) == CHOOSE k \in 0..n : k * k <= n /\ (k + 1) * (k + 1) > n
IsSquare(p) ==
  /\ p[1] >= 0
  /\ ISqrt(p[1]) * ISqrt(p[1]) = p[1]
  /\ ISqrt(p[2]) * ISqrt(p[2]) = p[2]
\* Math.sqrt on the arguments whose root is rational; the engine's inputs
\* are drawn so that only such arguments occur (see ExactConfig)
MathSqrt(p) == <<ISqrt(p[1]), ISqrt(p[2])>>

\* ------------------------------------------------------------------------
\* physics.js
\* ------------------------------------------------------------------------

\* export function clamp(value, min, max)
clamp(value, min, max) == MathMin(max, MathMax(min, value))

\* the literals of physics.js
AccelFloor == Rat(5, 100)      \* 0.05
SpeedFloor == Rat(1, 10)       \* 0.1
Half == Rat(1, 2)              \* 0.5
WithForcesG == Rat(981, 100)   \* 9.81 in withForces
TolFraction == Rat(2, 100)     \* 0.02
TolFloor == Rat(1, 2)          \* 0.5

\* export function deriveSensation(fn, fg)
deriveSensation(fn, fg) ==
  LET tol == MathMax(Mul(TolFraction, fg), TolFloor)
  IN  IF Gt(fn, Add(fg, tol)) THEN "heavier"
      ELSE IF Lt(fn, Sub(fg, tol)) THEN "lighter"
      ELSE "normal"

\* function withForces(state, massKg, fg)
withForces(state, massKg, fg) ==
  LET fn == MathMax(Zero, Mul(massKg, Add(WithForcesG, state.a)))
  IN  [t |-> state.t, y |-> state.y, v |-> state.v, a |-> state.a,
       phase |-> state.phase,
       fn |-> fn, fg |-> fg, sensation |-> deriveSensation(fn, fg)]

\* a variant with the floor at 0.5, which C4_InitialAccelIsFloored rejects
accelMagnitudeHalfFloor(config) == MathMax(config.accelMagMps2, Half)
\* const aMag = Math.max(config.accelMagMps2, 0.05)
accelMagnitude(config) == MathMax(config.accelMagMps2, AccelFloor)

\* a variant that leaves the cruise distance out, which C3_SegmentsContinuous rejects
decelY0NoCruise(directionSign, dAccel, dCruise) == Mul(Num(directionSign), dAccel)
\* y0 of the decelerating segment: directionSign * (dAccel + dCruise)
decelY0(directionSign, dAccel, dCruise) ==
  Mul(Num(directionSign), Add(dAccel, dCruise))

\* export function buildRideProfile(config)
buildRideProfile(config) ==
  LET displacement == Mul(Num(config.endFloor - config.startFloor), config.floorHeightM)
      directionSign ==
        IF MathSign(displacement) # 0 THEN MathSign(displacement)
        ELSE IF config.direction = "up" THEN 1 ELSE -1
      distance == MathAbs(displacement)
      aMag == accelMagnitude(config)
      vMax == MathMax(config.maxSpeedMps, SpeedFloor)
      tToVmax == Div(vMax, aMag)
      dAccelToVmax == Mul(Mul(Half, aMag), Mul(tToVmax, tToVmax))
      trapezoidal == Le(Mul(Num(2), dAccelToVmax), distance)
      tAccel == IF trapezoidal THEN tToVmax ELSE MathSqrt(Div(distance, aMag))
      dAccel == IF trapezoidal THEN dAccelToVmax
                ELSE Mul(Mul(Half, aMag), Mul(tAccel, tAccel))
      dCruise == IF trapezoidal THEN Sub(distance, Mul(Num(2), dAccel)) ELSE Zero
      tCruise == IF trapezoidal THEN Div(dCruise, vMax) ELSE Zero
      vPeak == IF trapezoidal THEN vMax ELSE Mul(aMag, tAccel)
      a1 == Mul(Num(directionSign), aMag)
      a3 == Mul(Num(-directionSign), aMag)
  IN  [segments |->
         << [phase |-> "accelerating", tStart |-> Zero, duration |-> tAccel,
             y0 |-> Zero, v0 |-> Zero, a |-> a1],
            [phase |-> "cruising", tStart |-> tAccel, duration |-> tCruise,
             y0 |-> Mul(Num(directionSign), dAccel),
             v0 |-> Mul(Num(directionSign), vPeak), a |-> Zero],
            [phase |-> "decelerating", tStart |-> Add(tAccel, tCruise),
             duration |-> tAccel,
             y0 |-> decelY0(directionSign, dAccel, dCruise),
             v0 |-> Mul(Num(directionSign), vPeak), a |-> a3] >>,
       totalTime |-> Add(Mul(Num(2), tAccel), tCruise),
       totalDisplacement |-> displacement,
       vPeak |-> vPeak,
       profileType |-> IF trapezoidal THEN "trapezoidal" ELSE "triangular"]

\* profile.segments.find((seg) => clampedT < seg.tStart + seg.duration) || profile.segments[2]
findSegment(profile, clampedT) ==
  LET hits == {i \in 1..3 :
                 Lt(clampedT, Add(profile.segments[i].tStart, profile.segments[i].duration))}
  IN  IF hits = {} THEN profile.segments[3]
      ELSE profile.segments[CHOOSE i \in hits : \A j \in hits : i <= j]

\* a variant with > for >=, which C2_StoppedExactlyAtEnd rejects
stopReachedStrictly(clampedT, totalTime) == Gt(clampedT, totalTime)
\* if (clampedT >= profile.totalTime)
stopReached(clampedT, totalTime) == Ge(clampedT, totalTime)

\* const y = segment.y0 + segment.v0 * dt + 0.5 * segment.a * dt * dt
segmentY(segment, dt) ==
  Add(Add(segment.y0, Mul(segment.v0, dt)), Mul(Mul(Half, segment.a), Mul(dt, dt)))

\* const v = segment.v0 + segment.a * dt
segmentV(segment, dt) == Add(segment.v0, Mul(segment.a, dt))

\* the moving branch of sampleStateAtTime, for the segment found
sampleInSegment(segment, clampedT, massKg, fg) ==
  LET dt == Sub(clampedT, segment.tStart)
      y == segmentY(segment, dt)
      v == segmentV(segment, dt)
  IN  withForces([t |-> clampedT, y |-> y, v |-> v, a |-> segment.a,
                  phase |-> segment.phase],
                 massKg, fg)

\* sampleStateAtTime once t is clamped
sampleClamped(profile, clampedT, config) ==
  LET fg == Mul(config.massKg, config.gMps2)
  IN  IF stopReached(clampedT, profile.totalTime)
      THEN withForces([t |-> clampedT, y |-> profile.totalDisplacement,
                       v |-> Zero, a |-> Zero, phase |-> "stopped"],
                      config.massKg, fg)
      ELSE \* const segment = ...: the one element of the set below
           CHOOSE state \in {sampleInSegment(segment, clampedT, config.massKg, fg) :
                               segment \in {findSegment(profile, clampedT)}} : TRUE

\* export function sampleStateAtTime(profile, t, config)
sampleStateAtTime(profile, t, config) ==
  \* const clampedT = clamp(t, 0, profile.totalTime): the one element of the set below
  CHOOSE state \in {sampleClamped(profile, clampedT, config) :
                      clampedT \in {clamp(t, Zero, profile.totalTime)}} : TRUE

\* ------------------------------------------------------------------------
\* app.js: constants
\* ------------------------------------------------------------------------

GRAVITY == Rat(981, 100)
FLOOR_HEIGHT_M == 3
MASS_KG == Rat(9, 2)
MAX_SPEED_MPS == 4
ACCEL_FLOORS == 3
ACCEL_DISTANCE_M == ACCEL_FLOORS * FLOOR_HEIGHT_M
ACCEL_MPS2 == Rat(MAX_SPEED_MPS * MAX_SPEED_MPS, 2 * ACCEL_DISTANCE_M)

\* the floors the three buttons go10, go20, go1 send the car to (wireEvents)
ButtonFloors == {10, 20, 1}

\* function makeConfig(fromFloor, toFloor)
makeConfig(fromFloor, toFloor) ==
  [direction |-> IF toFloor > fromFloor THEN "up" ELSE "down",
   startFloor |-> fromFloor,
   endFloor |-> toFloor,
   floorHeightM |-> Num(FLOOR_HEIGHT_M),
   massKg |-> MASS_KG,
   maxSpeedMps |-> Num(MAX_SPEED_MPS),
   accelMagMps2 |-> ACCEL_MPS2,
   gMps2 |-> GRAVITY]

\* a variant with <= for < in the lower test, which C5_ClassifiersAgree rejects
getForceRelationInclusive(fn, fg) ==
  LET tol == MathMax(Mul(TolFraction, fg), TolFloor)
  IN  IF Ge(fn, Add(fg, tol)) THEN "gt"
      ELSE IF Le(fn, Sub(fg, tol)) THEN "lt"
      ELSE "eq"
\* function getForceRelation(fn, fg)
getForceRelation(fn, fg) ==
  LET tol == MathMax(Mul(TolFraction, fg), TolFloor)
  IN  IF Gt(fn, Add(fg, tol)) THEN "gt"
      ELSE IF Lt(fn, Sub(fg, tol)) THEN "lt"
      ELSE "eq"

\* ------------------------------------------------------------------------
\* Bounds of the model
\* ------------------------------------------------------------------------

\* The host clock is a ring of ClockPeriod ms.  Its origin is arbitrary and
\* the driver only subtracts lastMs from the next reading, which is taken
\* before the ring wraps (see Wrap), so every difference the code computes is
\* the exact one.
ClockPeriod == 2 * 50
Wrap(ms) == ms % ClockPeriod
\* floors 1..MaxFloor of the configs the engine is queried with
MaxFloor == 3

\* ------------------------------------------------------------------------
\* State
\* ------------------------------------------------------------------------

VARIABLES
  \* app.js module state
  currentFloor, targetFloor, running, rideInProgress,
  simTime, simSpeed, rafId, lastMs, config, profile,
  \* what render() last wrote to the sensation and force-comparison lines
  senseLine, compareLine,
  \* host: handles of the frame callbacks requested and neither run nor cancelled
  pending,
  \* host: TRUE when lastMs holds a frame timestamp, FALSE when it holds a
  \* performance.now() reading
  lastMsIsFrameTime,
  \* TRUE when the handler that ran last is resetRide
  resetJustRan,
  \* engine under direct query: the config, the query time, the state returned
  qConfig, qT, qState,
  \* a force pair and its two classifications
  pairFn, pairFg, pairSens, pairRel

appVars == <<currentFloor, targetFloor, running, rideInProgress,
             simTime, simSpeed, rafId, lastMs, config, profile,
             senseLine, compareLine, pending, lastMsIsFrameTime, resetJustRan>>
engineVars == <<qConfig, qT, qState, pairFn, pairFg, pairSens, pairRel>>
vars == <<appVars, engineVars>>

NoHandle == 0

\* qState before the engine has been queried
Unsampled ==
  [t |-> Zero, y |-> Zero, v |-> Zero, a |-> Zero, phase |-> "unsampled",
   fn |-> Zero, fg |-> Zero, sensation |-> "none"]

\* ------------------------------------------------------------------------
\* app.js: the driver
\* ------------------------------------------------------------------------

\* the two lines of render(state) that show the sensation and the comparison
renderSense(state) == state.sensation
renderCompare(state) == getForceRelation(state.fn, state.fg)

\* a variant that cancels nothing, which C10_OneFrameIffRunning rejects
cancelFrameForgotten(pend, id) == pend
\* cancelFrame(): the pending set once the callback rafId names is cancelled
\* (cancelAnimationFrame of a handle that is not pending does nothing)
cancelFramePending(pend, id) == IF id # NoHandle THEN pend \ {id} ELSE pend

\* requestAnimationFrame: a handle different from every pending one
freshHandle(pend) == CHOOSE h \in 1..(Cardinality(pend) + 1) : h \notin pend

\* requestFrame(): cancelFrame(); rafId = requestAnimationFrame(onFrame)
requestFrameHandle(pend, id) == freshHandle(cancelFramePending(pend, id))
requestFramePending(pend, id) ==
  cancelFramePending(pend, id) \cup {requestFrameHandle(pend, id)}

\* what performance.now() may return: later than every time seen so far
PerfGaps == {50}
\* frame timestamp minus lastMs: a frame's timestamp is the start of its
\* frame, so it may precede a performance.now() reading taken by a handler of
\* that same frame; successive frame timestamps increase
PositiveFrameGaps == {50, 100}
FrameGaps == IF lastMsIsFrameTime THEN PositiveFrameGaps
             ELSE {-50, 0} \cup PositiveFrameGaps

\* the values the speed slider delivers
SliderValues == {Num(1), Num(4)}
SimSpeedMin == Rat(1, 2)
SimSpeedMax == Num(3)
MaxStep == Rat(5, 100)
MsPerSecond == Num(1000)

\* els.simSpeed "input" listener
SetSimSpeed ==
  /\ \E value \in SliderValues : simSpeed' = clamp(value, SimSpeedMin, SimSpeedMax)
  /\ resetJustRan' = FALSE
  /\ UNCHANGED <<currentFloor, targetFloor, running, rideInProgress, simTime,
                 rafId, lastMs, config, profile, senseLine, compareLine,
                 pending, lastMsIsFrameTime, engineVars>>

\* function startRide(nextFloor), performance.now() returning nowMs
startRideBody(nextFloor, nowMs) ==
  IF rideInProgress \/ nextFloor = currentFloor
  THEN UNCHANGED <<currentFloor, targetFloor, running, rideInProgress, simTime,
                   rafId, lastMs, config, profile, pending, lastMsIsFrameTime>>
  ELSE /\ targetFloor' = nextFloor
       /\ config' = makeConfig(currentFloor, nextFloor)
       /\ profile' = buildRideProfile(makeConfig(currentFloor, nextFloor))
       /\ simTime' = Zero
       /\ running' = TRUE
       /\ rideInProgress' = TRUE
       /\ lastMs' = Wrap(nowMs)
       /\ lastMsIsFrameTime' = FALSE
       /\ rafId' = requestFrameHandle(pending, rafId)
       /\ pending' = requestFramePending(pending, rafId)
       /\ UNCHANGED currentFloor

StartRide ==
  /\ \E nextFloor \in ButtonFloors : \E gap \in PerfGaps :
       startRideBody(nextFloor, lastMs + gap)
  /\ resetJustRan' = FALSE
  /\ UNCHANGED <<simSpeed, senseLine, compareLine, engineVars>>

\* a variant that keeps the old lastMs, which C6_PauseKeepsClock rejects
resumeLastMsStale(nowMs) == lastMs
\* lastMs = performance.now() in togglePause
resumeLastMs(nowMs) == Wrap(nowMs)

\* function togglePause(), performance.now() returning nowMs
togglePauseBody(nowMs) ==
  IF ~rideInProgress
  THEN UNCHANGED <<running, rafId, lastMs, pending, lastMsIsFrameTime>>
  ELSE IF running
  THEN /\ running' = FALSE
       /\ pending' = cancelFramePending(pending, rafId)
       /\ rafId' = NoHandle
       /\ UNCHANGED <<lastMs, lastMsIsFrameTime>>
  ELSE /\ running' = TRUE
       /\ lastMs' = resumeLastMs(nowMs)
       /\ lastMsIsFrameTime' = FALSE
       /\ rafId' = requestFrameHandle(pending, rafId)
       /\ pending' = requestFramePending(pending, rafId)

TogglePause ==
  /\ \E gap \in PerfGaps :
       togglePauseBody(lastMs + gap)
  /\ resetJustRan' = FALSE
  /\ UNCHANGED <<currentFloor, targetFloor, rideInProgress, simTime, simSpeed,
                 config, profile, senseLine, compareLine, engineVars>>

\* a variant that only tests rideInProgress, which C7_ResetRestoresIdentity rejects
resetGuardIdleOnly == ~rideInProgress
\* if (!rideInProgress && simTime === 0) return
resetGuard == ~rideInProgress /\ simTime = Zero

\* function resetRide()
resetRideBody ==
  IF resetGuard
  THEN UNCHANGED <<currentFloor, targetFloor, running, rideInProgress, simTime,
                   rafId, config, profile, senseLine, compareLine, pending>>
  ELSE /\ running' = FALSE
       /\ rideInProgress' = FALSE
       /\ pending' = cancelFramePending(pending, rafId)
       /\ rafId' = NoHandle
       /\ currentFloor' = 1
       /\ targetFloor' = 1
       /\ simTime' = Zero
       /\ config' = makeConfig(1, 1)
       /\ profile' = buildRideProfile(makeConfig(1, 1))
       /\ LET state == sampleStateAtTime(buildRideProfile(makeConfig(1, 1)), Zero,
                                         makeConfig(1, 1))
          IN  /\ senseLine' = renderSense(state)
              /\ compareLine' = renderCompare(state)

ResetRide ==
  /\ resetRideBody
  /\ resetJustRan' = TRUE
  /\ UNCHANGED <<simSpeed, lastMs, lastMsIsFrameTime, engineVars>>

\* const dt = Math.min((now - lastMs) / 1000, 0.05) * simSpeed
frameDt(now, last, speed) ==
  Mul(MathMin(Div(Num(now - last), MsPerSecond), MaxStep), speed)

\* simTime = clamp(simTime + dt, 0, profile.totalTime)
frameSimTime(now) == clamp(Add(simTime, frameDt(now, lastMs, simSpeed)), Zero, profile.totalTime)

\* a variant with > for >=, which C9_RideArrives rejects
arrivedStrictly(t) == Gt(t, profile.totalTime)
\* if (simTime >= profile.totalTime)
arrived(t) == Ge(t, profile.totalTime)

\* function onFrame(now): the host runs the pending callback with handle h
onFrameBody(h, now) ==
  /\ pending # {}
  /\ h \in pending
  /\ IF ~running
     THEN /\ pending' = pending \ {h}
          /\ UNCHANGED <<currentFloor, running, rideInProgress, simTime, rafId,
                         lastMs, senseLine, compareLine, lastMsIsFrameTime>>
     ELSE \E newSimTime \in {frameSimTime(now)} :
          /\ lastMs' = Wrap(now)
          /\ lastMsIsFrameTime' = TRUE
          /\ simTime' = newSimTime
          /\ IF arrived(newSimTime)
             THEN \E doneState \in {sampleStateAtTime(profile, profile.totalTime, config)} :
                      /\ running' = FALSE
                      /\ rideInProgress' = FALSE
                      /\ currentFloor' = targetFloor
                      /\ senseLine' = renderSense(doneState)
                      /\ compareLine' = renderCompare(doneState)
                      /\ pending' = pending \ {h}
                      /\ UNCHANGED rafId
             ELSE \E state \in {sampleStateAtTime(profile, newSimTime, config)} :
                      /\ senseLine' = renderSense(state)
                      /\ compareLine' = renderCompare(state)
                      /\ rafId' = requestFrameHandle(pending \ {h}, rafId)
                      /\ pending' = requestFramePending(pending \ {h}, rafId)
                      /\ UNCHANGED <<currentFloor, running, rideInProgress>>

OnFrame ==
  /\ \E h \in pending : \E gap \in FrameGaps :
       onFrameBody(h, lastMs + gap)
  /\ resetJustRan' = FALSE
  /\ UNCHANGED <<targetFloor, simSpeed, config, profile, engineVars>>

\* module state after the top-level statements and init()
InitApp ==
  /\ currentFloor = 1
  /\ targetFloor = 1
  /\ running = FALSE
  /\ rideInProgress = FALSE
  /\ simTime = Zero
  /\ simSpeed = Num(1)
  /\ rafId = NoHandle
  /\ lastMs = 0
  /\ config = makeConfig(1, 1)
  /\ profile = buildRideProfile(makeConfig(1, 1))
  /\ LET state == sampleStateAtTime(buildRideProfile(makeConfig(1, 1)), Zero,
                                    makeConfig(1, 1))
     IN  /\ senseLine = renderSense(state)
         /\ compareLine = renderCompare(state)
  /\ pending = {}
  /\ lastMsIsFrameTime = FALSE
  /\ resetJustRan = FALSE

\* the engine is not queried directly while the driver runs
EngineIdle ==
  /\ qConfig = makeConfig(1, 1)
  /\ qT = Zero
  /\ qState = Unsampled
  /\ pairFn = Zero
  /\ pairFg = Zero
  /\ pairSens = "none"
  /\ pairRel = "none"

Init == InitApp /\ EngineIdle

Next ==
  \/ StartRide
  \/ TogglePause
  \/ ResetRide
  \/ OnFrame
  \/ SetSimSpeed

Spec == Init /\ [][Next]_vars

\* The driver when every frame callback arrives with positive elapsed time
OnFramePositive ==
  /\ \E h \in pending : \E gap \in PositiveFrameGaps :
       onFrameBody(h, lastMs + gap)
  /\ resetJustRan' = FALSE
  /\ UNCHANGED <<targetFloor, simSpeed, config, profile, engineVars>>

\* the user resuming a paused ride
Resume == (rideInProgress /\ ~running) /\ TogglePause

LiveNext ==
  \/ StartRide
  \/ TogglePause
  \/ ResetRide
  \/ OnFramePositive
  \/ SetSimSpeed

\* the host keeps running the frame callbacks that are requested, and the
\* user does not leave a ride paused for ever
LiveSpec ==
  /\ Init
  /\ [][LiveNext]_vars
  /\ SF_vars(OnFramePositive)
  /\ WF_vars(Resume)

\* ------------------------------------------------------------------------
\* The engine queried directly: sampleStateAtTime(buildRideProfile(c), t, c)
\* ------------------------------------------------------------------------

EngineFloors == 1..MaxFloor
EngineHeights == {Num(2), Num(5)}
EngineMasses == {Rat(9, 2), Num(70)}
EngineMaxSpeeds == {Zero, Num(4)}
EngineAccels == {Zero, Rat(1, 100), Num(2), Num(12)}
EngineGravities == {Rat(981, 100), Rat(162, 100)}

EngineConfigs ==
  [direction : {"up", "down"}, startFloor : EngineFloors, endFloor : EngineFloors,
   floorHeightM : EngineHeights, massKg : EngineMasses,
   maxSpeedMps : EngineMaxSpeeds, accelMagMps2 : EngineAccels,
   gMps2 : EngineGravities]

\* the configs whose profile is computed without rounding: the triangular
\* branch takes Math.sqrt of a rational square
ExactConfig(c) ==
  LET distance == MathAbs(Mul(Num(c.endFloor - c.startFloor), c.floorHeightM))
      aMag == accelMagnitude(c)
  IN  buildRideProfile(c).profileType = "trapezoidal" \/ IsSquare(Div(distance, aMag))

FixedTimes == {Num(-1), Zero, Rat(1, 2), Num(1), Num(3), Num(1000)}
\* fixed instants, the segment boundaries, the end and the middle of the ride
QueryTimes(p) ==
  FixedTimes \cup {p.segments[2].tStart, p.segments[3].tStart, p.totalTime,
                   Mul(Half, p.totalTime)}

EngineInit ==
  /\ InitApp
  /\ qConfig \in {c \in EngineConfigs : ExactConfig(c)}
  /\ qT \in QueryTimes(buildRideProfile(qConfig))
  /\ qState = Unsampled
  /\ pairFn = Zero
  /\ pairFg = Zero
  /\ pairSens = "none"
  /\ pairRel = "none"

Sample ==
  /\ qState = Unsampled
  /\ qState' = sampleStateAtTime(buildRideProfile(qConfig), qT, qConfig)
  /\ UNCHANGED <<qConfig, qT, pairFn, pairFg, pairSens, pairRel, appVars>>

EngineNext == Sample

EngineSpec == EngineInit /\ [][EngineNext]_vars

\* ------------------------------------------------------------------------
\* The two classifiers applied to one force pair
\* ------------------------------------------------------------------------

ForceValues ==
  {Zero, Rat(1, 4), Rat(1, 2), Num(1), Rat(49, 2), Num(25), Rat(51, 2),
   Rat(2551, 100), Num(26), Num(97), Num(98), Num(100), Num(102), Num(103)}

ForceInit ==
  /\ InitApp
  /\ qConfig = makeConfig(1, 1)
  /\ qT = Zero
  /\ qState = Unsampled
  /\ pairFn \in ForceValues
  /\ pairFg \in ForceValues
  /\ pairSens = "none"
  /\ pairRel = "none"

Classify ==
  /\ pairSens = "none"
  /\ pairSens' = deriveSensation(pairFn, pairFg)
  /\ pairRel' = getForceRelation(pairFn, pairFg)
  /\ UNCHANGED <<pairFn, pairFg, qConfig, qT, qState, appVars>>

ForceNext == Classify

ForceSpec == ForceInit /\ [][ForceNext]_vars

\* ------------------------------------------------------------------------
\* Properties of the engine (EngineSpec, ForceSpec)
\* ------------------------------------------------------------------------

Sampled == qState.phase # "unsampled"
qProfile == buildRideProfile(qConfig)
MovingPhases == {"accelerating", "cruising", "decelerating"}

\* C1: the state the sampler returns has fn = max(0, massKg * (config.gMps2 + a)),
\* a being the acceleration of that state, for every gMps2 and not only 9.81.
C1_NormalForceUsesConfigGravity ==
  Sampled =>
    qState.fn = MathMax(Zero, Mul(qConfig.massKg, Add(qConfig.gMps2, qState.a)))

\* C2: the sampler returns phase stopped exactly when the query time has
\* reached totalTime, and then y = totalDisplacement, v = 0, a = 0, t = totalTime;
\* before totalTime (totalTime > 0) the phase is one of the three moving
\* phases; the zero-distance ride (totalTime = 0) is stopped at every query time,
\* the negative ones included.
C2_StoppedExactlyAtEnd ==
  Sampled =>
    /\ (qState.phase = "stopped") <=>
         (Ge(qT, qProfile.totalTime) \/ qProfile.totalTime = Zero)
    /\ Ge(qT, qProfile.totalTime) => qState.phase = "stopped"
    /\ qState.phase = "stopped" =>
         /\ qState.y = qProfile.totalDisplacement
         /\ qState.v = Zero
         /\ qState.a = Zero
         /\ qState.t = qProfile.totalTime
    /\ (Lt(qT, qProfile.totalTime) /\ Gt(qProfile.totalTime, Zero)) =>
         qState.phase \in MovingPhases
    /\ qConfig.startFloor = qConfig.endFloor =>
         (qProfile.totalTime = Zero /\ qState.phase = "stopped")

\* a ride of positive duration sampled exactly at its end
C2_Witness ==
  /\ Sampled
  /\ Gt(qProfile.totalTime, Zero)
  /\ qT = qProfile.totalTime
  /\ qState.phase = "stopped"

\* C3: at both segment boundaries the earlier segment's position and velocity
\* formulas, evaluated at its duration, give the later segment's y0 and v0.
C3_SegmentsContinuous ==
  LET s1 == qProfile.segments[1]
      s2 == qProfile.segments[2]
      s3 == qProfile.segments[3]
  IN  /\ segmentY(s1, s1.duration) = s2.y0
      /\ segmentV(s1, s1.duration) = s2.v0
      /\ segmentY(s2, s2.duration) = s3.y0
      /\ segmentV(s2, s2.duration) = s3.v0
      \* and the sampler, queried at a boundary, returns that common value
      /\ (Sampled /\ qT = s2.tStart /\ Lt(qT, qProfile.totalTime)) =>
           /\ qState.y = segmentY(s1, s1.duration)
           /\ qState.v = segmentV(s1, s1.duration)
      /\ (Sampled /\ qT = s3.tStart /\ Lt(qT, qProfile.totalTime)) =>
           /\ qState.y = segmentY(s2, s2.duration)
           /\ qState.v = segmentV(s2, s2.duration)

\* a downward trapezoidal ride that cruises for a positive time
C3_Witness ==
  /\ qProfile.profileType = "trapezoidal"
  /\ Gt(qProfile.segments[2].duration, Zero)
  /\ qConfig.endFloor < qConfig.startFloor
  /\ Sampled
  /\ qT = qProfile.segments[3].tStart

\* an upward triangular ride of positive duration
C3_TriangularReached ==
  /\ qProfile.profileType = "triangular"
  /\ Gt(qProfile.totalTime, Zero)
  /\ qConfig.endFloor > qConfig.startFloor

\* C4 as stated: sampling at t = 0 gives v = 0 and a = +accelMagMps2 (upward
\* ride) or -accelMagMps2 (downward ride) with phase accelerating when
\* totalTime > 0, for every accelMagMps2 >= 0, and the stopped state when
\* totalTime = 0.
C4_InitialAccelIsConfigured ==
  (Sampled /\ qT = Zero) =>
    /\ qState.v = Zero
    /\ IF Gt(qProfile.totalTime, Zero)
       THEN /\ qState.phase = "accelerating"
            /\ qState.a = IF qConfig.endFloor > qConfig.startFloor
                          THEN qConfig.accelMagMps2
                          ELSE Neg(qConfig.accelMagMps2)
       ELSE /\ qState.phase = "stopped"
            /\ qState.a = Zero

\* C4 amended: sampling at t = 0 gives v = 0 and a = +max(accelMagMps2, 0.05)
\* (upward ride) or -max(accelMagMps2, 0.05) (downward ride) with phase
\* accelerating when totalTime > 0, and the stopped state when totalTime = 0.
C4_InitialAccelIsFloored ==
  (Sampled /\ qT = Zero) =>
    /\ qState.v = Zero
    /\ IF Gt(qProfile.totalTime, Zero)
       THEN /\ qState.phase = "accelerating"
            /\ qState.a = IF qConfig.endFloor > qConfig.startFloor
                          THEN MathMax(qConfig.accelMagMps2, Rat(5, 100))
                          ELSE Neg(MathMax(qConfig.accelMagMps2, Rat(5, 100)))
       ELSE /\ qState.phase = "stopped"
            /\ qState.a = Zero

\* a ride of positive duration with accelMagMps2 below 0.05, sampled at t = 0
C4_Witness ==
  /\ Sampled
  /\ qT = Zero
  /\ Gt(qProfile.totalTime, Zero)
  /\ Lt(qConfig.accelMagMps2, Rat(5, 100))
  /\ qState.phase = "accelerating"

\* C5: deriveSensation and getForceRelation classify every pair (fn, fg) with
\* fn >= 0 and fg >= 0 alike: heavier exactly when gt, lighter exactly when lt,
\* normal exactly when eq.
C5_ClassifiersAgree ==
  pairSens # "none" =>
    /\ (pairSens = "heavier") <=> (pairRel = "gt")
    /\ (pairSens = "lighter") <=> (pairRel = "lt")
    /\ (pairSens = "normal") <=> (pairRel = "eq")

\* a pair exactly on the edge of the tolerance band: fn = fg + max(0.02 fg, 0.5)
C5_Witness ==
  /\ pairSens = "normal"
  /\ pairFn = Add(pairFg, MathMax(Mul(Rat(2, 100), pairFg), Rat(1, 2)))
  /\ Gt(pairFg, Num(25))

\* ------------------------------------------------------------------------
\* Properties of the driver (Spec, LiveSpec)
\* ------------------------------------------------------------------------

Paused == rideInProgress /\ ~running

\* C6: a pause leaves simTime, profile, config, currentFloor and targetFloor
\* unchanged and leaves no frame callback pending; simTime does not change
\* while the ride stays paused; a resume leaves simTime unchanged, sets lastMs
\* to the time read and schedules a frame; togglePause with no ride in
\* progress changes nothing.
C6_PauseKeepsClock ==
  /\ [][TogglePause =>
          IF ~rideInProgress
          THEN UNCHANGED <<currentFloor, targetFloor, running, rideInProgress,
                           simTime, simSpeed, rafId, lastMs, config, profile,
                           senseLine, compareLine, pending>>
          ELSE IF running
          THEN /\ ~running'
               /\ pending' = {}
               /\ UNCHANGED <<simTime, profile, config, currentFloor, targetFloor,
                              rideInProgress>>
          ELSE /\ running'
               /\ simTime' = simTime
               /\ lastMs' \in {Wrap(lastMs + gap) : gap \in PerfGaps}
               /\ ~lastMsIsFrameTime'
               /\ rafId' # NoHandle
               /\ pending' = {rafId'}
               /\ UNCHANGED <<profile, config, currentFloor, targetFloor,
                              rideInProgress>>]_vars
  /\ [][(Paused /\ Paused') => (simTime' = simTime /\ pending' = {})]_vars

\* a ride paused after it has advanced
C6_Witness == Paused /\ Gt(simTime, Zero) /\ Lt(simTime, profile.totalTime)

\* a ride resumed after it has advanced: lastMs holds a clock reading
C6_ResumedReached ==
  running /\ Gt(simTime, Zero) /\ ~lastMsIsFrameTime /\ pending = {rafId}

\* C7: right after resetRide, from any state and also when it returns early
\* through its guard, no frame callback is pending, running and rideInProgress
\* are false, simTime = 0, currentFloor = targetFloor = 1 and profile is the
\* zero-distance profile.
C7_ResetRestoresIdentity ==
  resetJustRan =>
    /\ pending = {}
    /\ ~running
    /\ ~rideInProgress
    /\ simTime = Zero
    /\ currentFloor = 1
    /\ targetFloor = 1
    /\ profile.totalTime = Zero
    /\ profile.totalDisplacement = Zero

\* resetRide has run after a ride that ran at least one frame
C7_Witness == resetJustRan /\ lastMsIsFrameTime

\* C8: within one ride the simulation time never decreases from one frame to
\* the next, increases by at most 0.05 * simSpeed per frame and stays in
\* [0, profile.totalTime], whatever timestamps the host delivers.
C8_SimTimeNeverDecreases ==
  [][(rideInProgress /\ ~resetJustRan') =>
       /\ Ge(simTime', simTime)
       /\ Le(Sub(simTime', simTime), Mul(Rat(5, 100), simSpeed))
       /\ Ge(simTime', Zero)
       /\ Le(simTime', profile.totalTime)]_vars

\* what does hold of the code: the step is at most 0.05 * simSpeed and the
\* simulation time stays in [0, profile.totalTime]
C8_StepBoundedAndInRange ==
  [][(rideInProgress /\ ~resetJustRan') =>
       /\ Le(Sub(simTime', simTime), Mul(Rat(5, 100), simSpeed))
       /\ Ge(simTime', Zero)
       /\ Le(simTime', profile.totalTime)]_vars

Arrived ==
  /\ ~rideInProgress
  /\ ~running
  /\ simTime = profile.totalTime
  /\ currentFloor = targetFloor
  /\ pending = {}

\* C9: during a ride currentFloor keeps its value and startRide is ignored;
\* the ride ends only by arriving (simTime = totalTime, running and
\* rideInProgress false, currentFloor = the target, no frame pending) or by a
\* reset; with frames of positive elapsed time and no pause left for ever, a
\* ride that is not reset eventually arrives.
C9_RideArrives ==
  /\ [][(rideInProgress /\ rideInProgress') =>
          UNCHANGED <<currentFloor, targetFloor, config, profile>>]_vars
  /\ [][StartRide =>
          IF rideInProgress \/ targetFloor' = currentFloor
          THEN UNCHANGED <<currentFloor, targetFloor, running, rideInProgress,
                           simTime, config, profile, pending>>
          ELSE currentFloor' = currentFloor /\ rideInProgress']_vars
  /\ [][(rideInProgress /\ ~rideInProgress' /\ ~resetJustRan') =>
          (Arrived' /\ currentFloor' = targetFloor /\ targetFloor' = targetFloor)]_vars
  /\ [](rideInProgress => <>(Arrived \/ resetJustRan))

\* a ride has arrived at a floor other than the first
C9_Witness == Arrived /\ currentFloor # 1 /\ Gt(simTime, Zero) /\ ~resetJustRan

\* C10: at most one frame callback is pending, one is pending exactly when
\* running, it is the one rafId names, and running implies rideInProgress.
C10_OneFrameIffRunning ==
  /\ Cardinality(pending) <= 1
  /\ (pending # {}) <=> running
  /\ running => rideInProgress
  /\ running => pending = {rafId}

\* a resumed ride: one callback pending, requested by togglePause
C10_Witness ==
  /\ running
  /\ ~lastMsIsFrameTime
  /\ Gt(simTime, Zero)
  /\ Cardinality(pending) = 1

\* what render shows: the sensation line and the comparison line agree
RenderAgrees ==
  /\ (senseLine = "heavier") <=> (compareLine = "gt")
  /\ (senseLine = "lighter") <=> (compareLine = "lt")
  /\ (senseLine = "normal") <=> (compareLine = "eq")
====
